---- MODULE Spec2Model ----
(***************************************************************************)
(* ShardedGradScaler (fairscale/optim/grad_scaler.py): the loss-scale      *)
(* controller of a sharded mixed-precision training run.  One scaler       *)
(* instance per process (shard); the processes of a process group meet     *)
(* only in the all-reduce of the found-overflow flags.                     *)
(*                                                                         *)
(* Numbers.  The scale is a float32 that starts at a power of two and is   *)
(* only multiplied by growth_factor and backoff_factor; it is modelled by  *)
(* its exact integer value, the two factors and the reciprocal of the      *)
(* scale by fractions <<numerator, denominator>>.  Within the bounds below *)
(* every product is exact (no rounding, no float32 overflow).  A gradient  *)
(* element is a natural number, or NonFinite for +-inf / NaN.              *)
(***************************************************************************)
EXTENDS Integers, Sequences, FiniteSets, TLC

\* ------------------------------------------------------------------ bounds
NumShards == 2          \* processes of the sharded specification
MaxIter == 3            \* successful update() calls of the single process
MaxIterSharded == 1     \* successful update() calls of each rank of the sharded run
GrowthInterval == 2     \* growth_interval given to the constructor
GradVal == 3            \* the value of every finite gradient element before scaling
MaxIterOpts == 1        \* successful update() calls of the run with several optimizers

\* --------------------------------------------------------- configuration
InitScale == 1024                      \* init_scale given to the constructor
GrowthFactor == <<2, 1>>               \* growth_factor = 2.0
BackoffFactor == <<1, 2>>              \* backoff_factor = 0.5
NewScale == 512                        \* the value passed to update(new_scale)

Shards == 1..NumShards
Devices == {"cpu", "cuda"}
NonFinite == -1

\* The one element of a singleton set; {body : x \in {e}} evaluates e once.
Only(S) == CHOOSE v \in S : TRUE

\* value * (f[1] / f[2])
MulFrac(value, f) == IF value = NonFinite THEN NonFinite ELSE (value * f[1]) \div f[2]

\* A one-element buffer, a plain Python number, or None.
None == [kind |-> "None", device |-> "none", val |-> 0]
Tensor(dev, v) == [kind |-> "Tensor", device |-> dev, val |-> v]
PyNumber(v) == [kind |-> "Number", device |-> "none", val |-> v]

\* ----------------------------------------------------- per-optimizer state
\* The optimizers of the training script: two scale-agnostic ones and one
\* that declares _step_supports_amp_scaling.
Opts == {"opt1", "opt2", "ampopt"}
ScaleAware == {"ampopt"}
\* No optimizer is treated as scale-aware.
step_supports_amp_scaling_ignored(optimizer) == FALSE

\* hasattr(optimizer, "_step_supports_amp_scaling") and its value (line 297).
step_supports_amp_scaling(optimizer) == optimizer \in ScaleAware

\* found_inf_per_device is an insertion-ordered dict: a sequence of
\* [device, val] entries with distinct devices.
_refresh_per_optimizer_state == [stage |-> "READY", found_inf_per_device |-> <<>>]

\* defaultdict access self._per_optimizer_states[id(optimizer)]: creates the entry.
Touch(states, optimizer) ==
    IF optimizer \in DOMAIN states THEN states
    ELSE [o \in (DOMAIN states) \cup {optimizer} |->
            IF o = optimizer THEN _refresh_per_optimizer_state ELSE states[o]]

EmptyStates == [o \in {} |-> _refresh_per_optimizer_state]

\* ------------------------------------------------------------ the instance
\* __init__ (amp_definitely_not_available() is folded into `enabled`).
Construct(enabled) ==
    [_enabled |-> enabled,
     _init_scale |-> InitScale,
     _scale |-> None,
     _growth_factor |-> GrowthFactor,
     _backoff_factor |-> BackoffFactor,
     _growth_interval |-> GrowthInterval,
     _init_growth_tracker |-> 0,
     _growth_tracker |-> None,
     _per_optimizer_states |-> EmptyStates]

\* _check_scale_growth_tracker: TRUE when both assertions pass.
_check_scale_growth_tracker(self) ==
    self._scale.kind # "None" /\ self._growth_tracker.kind # "None"

\* A lazy initialization from the constructor's defaults, whatever the
\* _init_ attributes hold.
_lazy_init_from_defaults(self, dev) ==
    [self EXCEPT !._scale = Tensor(dev, InitScale),
                 !._growth_tracker = Tensor(dev, 0)]

\* Lines 111-114.
_lazy_init_scale_growth_tracker(self, dev) ==
    [self EXCEPT !._scale = Tensor(dev, self._init_scale),
                 !._growth_tracker = Tensor(dev, self._init_growth_tracker)]

\* A scale() that lacks the `if not self._enabled` return.
scale_ignores_enabled(self, outputs, dev) ==
    Only({ [self |-> s1, retval |-> outputs * s1._scale.val]
           : s1 \in {IF self._scale.kind = "None"
                     THEN _lazy_init_scale_growth_tracker(self, dev) ELSE self} })

\* scale(outputs) for one tensor on device dev holding the value `outputs`.
scale(self, outputs, dev) ==
    IF ~self._enabled THEN [self |-> self, retval |-> outputs]
    ELSE Only({ [self |-> s1, retval |-> outputs * s1._scale.val]
                : s1 \in {IF self._scale.kind = "None"
                          THEN _lazy_init_scale_growth_tracker(self, dev) ELSE self} })

\* ------------------------------------------------------------ gradients
\* A parameter's gradient: [device, dtype, rows]; rows are the slices that
\* iterating the tensor yields.  NoGrad is `param.grad is None`.
NoGrad == [device |-> "none", dtype |-> "none", rows |-> <<>>]
Grad(dev, dt, rows) == [device |-> dev, dtype |-> dt, rows |-> rows]

\* optimizer.param_groups as they are before scaling: a sequence of groups,
\* each a sequence of parameters.
NoGradLayout == << <<NoGrad>> >>

GradLayouts ==
    { << <<Grad("cuda", "float32", <<GradVal, GradVal>>)>> >>,
      << <<Grad("cuda", "float32", <<GradVal>>), Grad("cuda", "float32", <<NonFinite>>)>> >>,
      << <<Grad("cpu", "float32", <<GradVal, GradVal>>)>> >>,
      << <<Grad("cpu", "float32", <<GradVal, NonFinite, GradVal>>)>> >>,
      << <<Grad("cpu", "float32", <<GradVal>>), Grad("cpu", "float32", <<NonFinite>>)>> >>,
      << <<Grad("cpu", "float32", <<GradVal>>), NoGrad>>, <<Grad("cuda", "float32", <<NonFinite>>)>> >>,
      NoGradLayout }

\* Every element of a tensor multiplied by the fraction f.
MulRows(rows, f) == [i \in DOMAIN rows |-> MulFrac(rows[i], f)]

\* The gradients the backward pass of a loss multiplied by `mult` leaves.
Backward(layout, mult) ==
    [g \in DOMAIN layout |->
        [p \in DOMAIN layout[g] |->
            [layout[g][p] EXCEPT !.rows = MulRows(layout[g][p].rows, <<mult, 1>>)]]]

\* Lines 193-211: the gradients in traversal order, parameters without a
\* gradient left out.
RECURSIVE Flatten(_)
Flatten(groups) ==
    IF groups = <<>> THEN <<>>
    ELSE SelectSeq(Head(groups), LAMBDA p : p # NoGrad) \o Flatten(Tail(groups))

\* Keys of per_device_and_dtype_grads in insertion order.
RECURSIVE KeysInOrder(_, _)
KeysInOrder(grads, seen) ==
    IF grads = <<>> THEN <<>>
    ELSE IF <<Head(grads).device, Head(grads).dtype>> \in seen
         THEN KeysInOrder(Tail(grads), seen)
         ELSE <<<<Head(grads).device, Head(grads).dtype>>>>
              \o KeysInOrder(Tail(grads), seen \cup {<<Head(grads).device, Head(grads).dtype>>})

\* dict iteration of lines 213-214: devices by first appearance, and within
\* a device its dtypes by first appearance.
RECURSIVE DevicesInOrder(_, _)
DevicesInOrder(keys, seen) ==
    IF keys = <<>> THEN <<>>
    ELSE IF Head(keys)[1] \in seen THEN DevicesInOrder(Tail(keys), seen)
         ELSE <<Head(keys)[1]>> \o DevicesInOrder(Tail(keys), seen \cup {Head(keys)[1]})

RECURSIVE GroupOrderFor(_, _)
GroupOrderFor(devs, keys) ==
    IF devs = <<>> THEN <<>>
    ELSE SelectSeq(keys, LAMBDA k : k[1] = Head(devs)) \o GroupOrderFor(Tail(devs), keys)

GroupOrderOf(keys) == GroupOrderFor(DevicesInOrder(keys, {}), keys)

GroupOrder(grads) == GroupOrderOf(KeysInOrder(grads, {}))

\* Positions (in traversal order) of the gradients of one device/dtype group.
RECURSIVE GroupIdx(_, _, _)
GroupIdx(grads, k, i) ==
    IF i > Len(grads) THEN <<>>
    ELSE (IF <<grads[i].device, grads[i].dtype>> = k THEN <<i>> ELSE <<>>)
         \o GroupIdx(grads, k, i + 1)

\* ---------------------------------------------------------- overflow scan
\* Lines 168-179: the loop over `grads[0]`; stops at the first non-finite
\* slice, multiplies the slices before it by inv_scale.
RECURSIVE cpu_scan_rows(_, _, _)
cpu_scan_rows(rows, i, inv_scale) ==
    IF i > Len(rows) THEN [rows |-> rows, found |-> FALSE]
    ELSE IF rows[i] = NonFinite THEN [rows |-> rows, found |-> TRUE]
    ELSE cpu_scan_rows([rows EXCEPT ![i] = MulFrac(rows[i], inv_scale)], i + 1, inv_scale)

\* grads: the gradient tensors of one device/dtype group; found_inf: the
\* device's flag.  Only grads[0] (here grads[1]) is iterated.
_foreach_non_finite_check_and_unscale_cpu_(grads, found_inf, inv_scale) ==
    IF Len(grads) = 0 THEN [grads |-> grads, found_inf |-> found_inf]
    ELSE Only({ [grads |-> [grads EXCEPT ![1].rows = r.rows],
                  found_inf |-> IF r.found THEN 1 ELSE found_inf]
                : r \in {cpu_scan_rows(grads[1].rows, 1, inv_scale)} })

\* torch._amp_foreach_non_finite_check_and_unscale_ (lines 220-222): every
\* tensor of the group is multiplied by inv_scale and the flag is set to 1.0
\* when any element of any tensor is non-finite.
amp_foreach_non_finite_check_and_unscale_(grads, found_inf, inv_scale) ==
    [grads |-> [i \in DOMAIN grads |->
                  [grads[i] EXCEPT !.rows = MulRows(grads[i].rows, inv_scale)]],
     found_inf |-> IF \E i \in DOMAIN grads : \E r \in DOMAIN grads[i].rows :
                         grads[i].rows[r] = NonFinite
                   THEN 1 ELSE found_inf]

\* _GeneralMultiDeviceReplicator.get on the found_inf replicator: the cached
\* copy for the device, created from the master on first use.
HasFlag(found, dev) == \E i \in DOMAIN found : found[i].device = dev
FlagOf(found, dev) == (CHOOSE i \in DOMAIN found : found[i].device = dev)
ReplicatorGet(found, dev, master) ==
    IF HasFlag(found, dev) THEN found
    ELSE Append(found, [device |-> dev, val |-> master])

SetFlag(found, dev, v) ==
    [i \in DOMAIN found |-> IF found[i].device = dev THEN [found[i] EXCEPT !.val = v]
                            ELSE found[i]]

\* Lines 213-222: one call per device/dtype group, the element-wise scan for
\* a cpu group and the vectorized primitive otherwise.
CheckAndUnscale(sub, cur, inv_scale, dev) ==
    IF dev = "cpu"
    THEN _foreach_non_finite_check_and_unscale_cpu_(sub, cur, inv_scale)
    ELSE amp_foreach_non_finite_check_and_unscale_(sub, cur, inv_scale)

\* The group's tensors written back to their places (the scan is in place).
WriteBack(grads, idx, sub) ==
    [i \in DOMAIN grads |->
        IF \E j \in DOMAIN idx : idx[j] = i
        THEN sub[CHOOSE j \in DOMAIN idx : idx[j] = i]
        ELSE grads[i]]

ScanGroup(grads, found, k, inv_scale, master) ==
    Only({ Only({ [grads |-> WriteBack(grads, idx, r.grads),
                   found |-> SetFlag(f1, k[1], r.found_inf)]
                  : r \in {CheckAndUnscale([j \in DOMAIN idx |-> grads[idx[j]]],
                                           f1[FlagOf(f1, k[1])].val, inv_scale, k[1])} })
           : idx \in {GroupIdx(grads, k, 1)}, f1 \in {ReplicatorGet(found, k[1], master)} })

RECURSIVE ScanGroups(_, _, _)
ScanGroups(state, keys, inv_scale) ==
    IF keys = <<>> THEN state
    ELSE ScanGroups(ScanGroup(state.grads, state.found, Head(keys), inv_scale, 0),
                    Tail(keys), inv_scale)

\* _unscale_grads_(optimizer, inv_scale, found_inf) with the zero flag
\* unscale_ passes: the optimizer's gradients after the scan and the
\* per-device flags.
ScanAll(grads, inv_scale) ==
    ScanGroups([grads |-> grads, found |-> <<>>], GroupOrder(grads), inv_scale)

_unscale_grads_(param_groups, inv_scale) == ScanAll(Flatten(param_groups), inv_scale)

\* ------------------------------------------------------------- unscale_
RECURSIVE SumVals(_)
SumVals(found) == IF found = <<>> THEN 0 ELSE Head(found).val + SumVals(Tail(found))

\* torch.cuda.amp.GradScaler.unscale_, reached through super() at line 236:
\* refuses a second scan of the optimizer in the iteration, else runs
\* _unscale_grads_ with the reciprocal of the scale and a zero flag and marks
\* the optimizer UNSCALED.
super_unscale_scan(self, optimizer, r) ==
    [self |-> [self EXCEPT !._per_optimizer_states[optimizer] =
                  [stage |-> "UNSCALED", found_inf_per_device |-> r.found]],
     grads |-> r.grads, err |-> "none"]

super_unscale_(self0, optimizer, param_groups) ==
    Only({
       IF ~self._enabled THEN [self |-> self0, grads |-> Flatten(param_groups), err |-> "none"]
       ELSE IF ~_check_scale_growth_tracker(self)
       THEN [self |-> self0, grads |-> Flatten(param_groups),
             err |-> "AssertionError: _scale is None"]
       ELSE IF self._per_optimizer_states[optimizer].stage = "UNSCALED"
       THEN [self |-> self, grads |-> Flatten(param_groups),
             err |-> "RuntimeError: unscale_() has already been called"]
       ELSE IF self._per_optimizer_states[optimizer].stage = "STEPPED"
       THEN [self |-> self, grads |-> Flatten(param_groups),
             err |-> "RuntimeError: unscale_() is being called after step()"]
       ELSE super_unscale_scan(self, optimizer,
                               _unscale_grads_(param_groups, <<1, self._scale.val>>))
       : self \in {[self0 EXCEPT !._per_optimizer_states = Touch(@, optimizer)]} })

\* Lines 242-248, one all_reduce per flag in dict order.  A cpu flag is
\* copied to the accelerator and the copy is reduced; the copy back
\* (v_on_cuda.cpu()) is not stored, so the flag kept in found_inf_per_device
\* is not the buffer the reduction writes.  inplace says whether it is.
IssueReductions(found) ==
    [i \in DOMAIN found |->
        [val |-> found[i].val, device |-> found[i].device,
         inplace |-> found[i].device # "cpu"]]

\* unscale_ up to the wait of line 253: the instance, the gradients and the
\* reductions issued.  display_warning exists on an enabled instance only.
unscale_(self, optimizer, param_groups) ==
    IF ~self._enabled
    THEN [self |-> self, grads |-> Flatten(param_groups), issued |-> <<>>,
          err |-> "AttributeError: display_warning"]
    ELSE Only({ [self |-> r.self, grads |-> r.grads, err |-> r.err,
                 issued |-> IF r.err # "none" THEN <<>>
                            ELSE IssueReductions(
                                   r.self._per_optimizer_states[optimizer].found_inf_per_device)]
                : r \in {super_unscale_(self, optimizer, param_groups)} })

\* ----------------------------------------------------------------- step
\* A _maybe_opt_step that looks at the first device's flag only.
_maybe_opt_step_first_device(found_inf_per_device) == Head(found_inf_per_device).val = 0

\* Line 257: TRUE when optimizer.step is to be called.
_maybe_opt_step(found_inf_per_device) == SumVals(found_inf_per_device) = 0

\* A step() without the check of lines 292-293.
already_stepped_unchecked(optimizer_state) == FALSE

\* A step() that runs unscale_ whatever the stage.
needs_unscale_always(optimizer_state) == TRUE

\* Line 306.
needs_unscale(optimizer_state) == optimizer_state.stage = "READY"

\* Lines 292-293.
already_stepped(optimizer_state) == optimizer_state.stage = "STEPPED"

\* A tail of step() that marks every tracked optimizer STEPPED.
step_finish_marks_all(self, optimizer) ==
    IF Len(self._per_optimizer_states[optimizer].found_inf_per_device) = 0
    THEN [self |-> self, err |-> "AssertionError: No inf checks were recorded for this optimizer",
          invoked |-> FALSE]
    ELSE [self |-> [self EXCEPT !._per_optimizer_states =
                       [o \in DOMAIN @ |-> [@[o] EXCEPT !.stage = "STEPPED"]]],
          err |-> "none",
          invoked |-> _maybe_opt_step(self._per_optimizer_states[optimizer].found_inf_per_device)]

\* A tail of step() that hands the optimizer back as READY.
step_finish_rewinds(self, optimizer) ==
    IF Len(self._per_optimizer_states[optimizer].found_inf_per_device) = 0
    THEN [self |-> self, err |-> "AssertionError: No inf checks were recorded for this optimizer",
          invoked |-> FALSE]
    ELSE [self |-> [self EXCEPT !._per_optimizer_states[optimizer].stage = "READY"],
          err |-> "none",
          invoked |-> _maybe_opt_step(self._per_optimizer_states[optimizer].found_inf_per_device)]

\* Lines 309-312, the part of step() after unscale_ has returned.
step_finish(self, optimizer) ==
    IF Len(self._per_optimizer_states[optimizer].found_inf_per_device) = 0
    THEN [self |-> self, err |-> "AssertionError: No inf checks were recorded for this optimizer",
          invoked |-> FALSE]
    ELSE [self |-> [self EXCEPT !._per_optimizer_states[optimizer].stage = "STEPPED"],
          err |-> "none",
          invoked |-> _maybe_opt_step(self._per_optimizer_states[optimizer].found_inf_per_device)]

\* Lines 306-312 once unscale_ has issued its reductions: the call goes on
\* after the wait when there are any.
step_after_unscale(u, optimizer) ==
    IF u.err # "none"
    THEN [self |-> u.self, grads |-> <<>>, issued |-> <<>>, scan |-> FALSE, done |-> TRUE,
          err |-> u.err, invoked |-> FALSE, grad_scaler |-> FALSE]
    ELSE IF u.issued # <<>>
    THEN [self |-> u.self, grads |-> u.grads, issued |-> u.issued, scan |-> TRUE,
          done |-> FALSE, err |-> "none", invoked |-> FALSE, grad_scaler |-> FALSE]
    ELSE [grads |-> u.grads, issued |-> <<>>, scan |-> TRUE, done |-> TRUE,
          grad_scaler |-> FALSE]
         @@ step_finish(u.self, optimizer)

\* step() up to the wait inside unscale_ (lines 282-307).  scan says that
\* unscale_ ran; when it issued reductions the call goes on after the wait,
\* and done is FALSE.
step(self, optimizer, param_groups) ==
    Only({
       IF ~self._enabled
       THEN nop @@ [self |-> self, err |-> "none", invoked |-> TRUE]
       ELSE IF ~_check_scale_growth_tracker(self)
       THEN nop @@ [self |-> self, err |-> "AssertionError: _scale is None", invoked |-> FALSE]
       ELSE IF already_stepped(self1._per_optimizer_states[optimizer])
       THEN nop @@ [self |-> self1, err |-> "RuntimeError: step() has already been called",
                    invoked |-> FALSE]
       ELSE IF step_supports_amp_scaling(optimizer)
       THEN [nop EXCEPT !.grad_scaler = TRUE]
            @@ [self |-> [self1 EXCEPT !._per_optimizer_states[optimizer].stage = "STEPPED"],
                err |-> "none", invoked |-> TRUE]
       ELSE IF needs_unscale(self1._per_optimizer_states[optimizer])
       THEN step_after_unscale(unscale_(self1, optimizer, param_groups), optimizer)
       ELSE nop @@ step_finish(self1, optimizer)
       : nop \in {[grads |-> <<>>, issued |-> <<>>, scan |-> FALSE, done |-> TRUE,
                   grad_scaler |-> FALSE]},
         self1 \in {[self EXCEPT !._per_optimizer_states = Touch(@, optimizer)]} })

\* --------------------------------------------------------------- update
\* An _amp_update_scale_cpu_ that grows the scale and keeps counting.
_amp_update_scale_cpu_no_reset(self, found_inf) ==
    IF found_inf = NonFinite
    THEN [self EXCEPT !._scale.val = MulFrac(@, self._backoff_factor),
                      !._growth_tracker = PyNumber(0)]
    ELSE IF self._growth_tracker.val + 1 = self._growth_interval
         THEN [self EXCEPT !._scale.val = MulFrac(@, self._growth_factor),
                           !._growth_tracker.val = @ + 1]
         ELSE [self EXCEPT !._growth_tracker.val = @ + 1]

\* Lines 315-324.  found_inf is compared with +-infinity only.
_amp_update_scale_cpu_(self, found_inf) ==
    IF found_inf = NonFinite
    THEN [self EXCEPT !._scale.val = MulFrac(@, self._backoff_factor),
                      !._growth_tracker = PyNumber(0)]
    ELSE LET successful == [self._growth_tracker EXCEPT !.val = @ + 1]
         IN IF successful.val = self._growth_interval
            THEN [self EXCEPT !._scale.val = MulFrac(@, self._growth_factor),
                              !._growth_tracker = PyNumber(0)]
            ELSE [self EXCEPT !._growth_tracker = successful]

\* An update kernel that grows the scale and keeps counting.
amp_update_scale_no_reset(self, found_inf) ==
    IF found_inf # 0
    THEN [self EXCEPT !._scale.val = MulFrac(@, self._backoff_factor),
                      !._growth_tracker.val = 0]
    ELSE IF self._growth_tracker.val + 1 = self._growth_interval
         THEN [self EXCEPT !._scale.val = MulFrac(@, self._growth_factor),
                           !._growth_tracker.val = @ + 1]
         ELSE [self EXCEPT !._growth_tracker.val = @ + 1]

\* torch._amp_update_scale_ (lines 383-390): both buffers are written in place.
amp_update_scale_(self, found_inf) ==
    IF found_inf # 0
    THEN [self EXCEPT !._scale.val = MulFrac(@, self._backoff_factor),
                      !._growth_tracker.val = 0]
    ELSE IF self._growth_tracker.val + 1 = self._growth_interval
         THEN [self EXCEPT !._scale.val = MulFrac(@, self._growth_factor),
                           !._growth_tracker.val = 0]
         ELSE [self EXCEPT !._growth_tracker.val = @ + 1]

\* Lines 365-369: every flag of every tracked optimizer.
RECURSIVE found_infs(_, _)
found_infs(states, opts) ==
    IF opts = {} THEN <<>>
    ELSE LET o == CHOOSE x \in opts : TRUE
         IN states[o].found_inf_per_device \o found_infs(states, opts \ {o})

\* An update() without the assertion of line 371.
no_inf_checks_unchecked(infs) == FALSE

\* Line 371.
no_inf_checks(infs) == Len(infs) = 0

\* An explicit new scale that also restarts the growth tracker.
accept_new_scale_resets_tracker(self, new_scale) ==
    [self EXCEPT !._scale.val = new_scale[1], !._growth_tracker.val = 0]

\* Lines 353-355: self._scale.fill_(new_scale).
accept_new_scale(self, new_scale) == [self EXCEPT !._scale.val = new_scale[1]]

\* An update() that keeps the per-optimizer states.
keep_per_optimizer_states(self) == self

\* Lines 392-393: a fresh defaultdict.
reset_per_optimizer_states(self) == [self EXCEPT !._per_optimizer_states = EmptyStates]

\* update(new_scale); new_scale is <<>> for None and <<v>> for the float v.
update(self, new_scale) ==
    IF ~self._enabled THEN [self |-> self, err |-> "none"]
    ELSE IF ~_check_scale_growth_tracker(self)
    THEN [self |-> self, err |-> "AssertionError: _scale is None"]
    ELSE IF new_scale # <<>>
    THEN [self |-> reset_per_optimizer_states(accept_new_scale(self, new_scale)),
          err |-> "none"]
    ELSE Only({
            IF no_inf_checks(infs)
            THEN [self |-> self, err |-> "AssertionError: No inf checks were recorded prior to update"]
            ELSE [self |-> reset_per_optimizer_states(
                               IF self._scale.device = "cpu"
                               THEN _amp_update_scale_cpu_(self, SumVals(infs))
                               ELSE amp_update_scale_(self, SumVals(infs))),
                  err |-> "none"]
            : infs \in {found_infs(self._per_optimizer_states,
                                   DOMAIN self._per_optimizer_states)} })

\* ---------------------------------------------------------- persistence
get_scale(self) ==
    IF self._enabled
    THEN (IF self._scale.kind = "None" THEN self._init_scale ELSE self._scale.val)
    ELSE 1

\* _get_growth_tracker: .item() exists on a tensor only.
growth_tracker_readable(self) ==
    ~self._enabled \/ self._growth_tracker.kind # "Number"

_get_growth_tracker(self) ==
    IF self._enabled
    THEN (IF self._growth_tracker.kind = "None" THEN self._init_growth_tracker
          ELSE self._growth_tracker.val)
    ELSE 0

EmptyDict == [k \in {} |-> 0]

state_dict(self) ==
    IF ~self._enabled THEN [err |-> "none", retval |-> EmptyDict]
    ELSE IF ~growth_tracker_readable(self)
    THEN [err |-> "AttributeError: 'int' object has no attribute 'item'", retval |-> EmptyDict]
    ELSE [err |-> "none",
          retval |-> [scale |-> get_scale(self),
                      growth_factor |-> self._growth_factor,
                      backoff_factor |-> self._backoff_factor,
                      growth_interval |-> self._growth_interval,
                      _growth_tracker |-> _get_growth_tracker(self)]]

\* load_state_dict: the assignments of lines 505-513 in order; fill_ exists
\* on a tensor only.
load_state_dict(self, sd) ==
    IF ~self._enabled THEN [self |-> self, err |-> "none"]
    ELSE IF DOMAIN sd = {}
    THEN [self |-> self, err |-> "RuntimeError: The source state dict is empty"]
    ELSE Only({
            IF self._growth_tracker.kind = "None" THEN [self |-> s1, err |-> "none"]
            ELSE IF self._growth_tracker.kind = "Number"
            THEN [self |-> s1, err |-> "AttributeError: 'int' object has no attribute 'fill_'"]
            ELSE [self |-> [s1 EXCEPT !._growth_tracker.val = sd._growth_tracker],
                  err |-> "none"]
            : s1 \in {[self EXCEPT !._init_scale = sd.scale,
                                   !._scale = IF @.kind = "None" THEN @
                                              ELSE [@ EXCEPT !.val = sd.scale],
                                   !._growth_factor = sd.growth_factor,
                                   !._backoff_factor = sd.backoff_factor,
                                   !._growth_interval = sd.growth_interval,
                                   !._init_growth_tracker = sd._growth_tracker]} })

\* __getstate__ (pickling): the copy of __dict__ with the scale and the
\* tracker count moved to the _init_ attributes and the buffers dropped.
__getstate__(self) ==
    IF ~self._enabled THEN [err |-> "none", state |-> self]
    ELSE IF DOMAIN self._per_optimizer_states # {}
    THEN [err |-> "AssertionError: A GradScaler instance may only be pickled at the beginning of an iteration",
          state |-> self]
    ELSE IF ~growth_tracker_readable(self)
    THEN [err |-> "AttributeError: 'int' object has no attribute 'item'", state |-> self]
    ELSE [err |-> "none",
          state |-> [self EXCEPT !._init_scale = get_scale(self),
                                 !._init_growth_tracker = _get_growth_tracker(self),
                                 !._scale = None,
                                 !._growth_tracker = None]]

\* A state_dict() blob of another run: one overflow-free iteration done.
SampleBlob ==
    [scale |-> InitScale, growth_factor |-> GrowthFactor, backoff_factor |-> BackoffFactor,
     growth_interval |-> GrowthInterval, _growth_tracker |-> 1]

\* =================================================================
\* The processes.  group is the process group; a process outside it does
\* not run.  optimizers are the optimizers the training script uses.
VARIABLES
    group,      \* the ranks of the process group (dist.group)
    optimizers, \* the optimizers of the training script
    maxIter,    \* the iterations each process runs
    scaler,     \* scaler[p]: the ShardedGradScaler instance of process p
    pc,         \* pc[p]: where process p is: idle, or inside the wait of unscale_
    chan,       \* chan[p]: the all_reduce calls p has issued that are not complete
    iter,       \* iter[p]: successful update() calls of an enabled instance
    ret,        \* the last call that returned or raised, and the process that made it
    probe,      \* the overflow scan under test: its input, and its output once it ran
    decision,   \* decision[p][o]: what step() did with optimizer.step this iteration
    overflow,   \* overflow[p]: what the scans of p met in this iteration
    cleanRun,   \* cleanRun[p]: overflow-free iterations since the tracker was 0, or -1
    runScale    \* runScale[p]: the scale when that run began

vars == <<group, optimizers, maxIter, scaler, pc, chan, iter, ret, probe, decision,
          overflow, cleanRun, runScale>>

Idle == [at |-> "idle", optimizer |-> "none"]
\* A call: who made it, the operation, its argument, the error it raised or
\* "none" ("waiting" while it is blocked), whether it called optimizer.step,
\* and the number it returned (0 when it returns none).
\* grad_scaler says that optimizer.step was given grad_scaler=self, scan that
\* the call ran the overflow scan.
NoCall == [proc |-> 0, op |-> "none", arg |-> "none", err |-> "none",
           invoked |-> FALSE, value |-> 0, grad_scaler |-> FALSE, scan |-> FALSE]
Ret(p, op, arg, err, invoked, value) ==
    [proc |-> p, op |-> op, arg |-> arg, err |-> err, invoked |-> invoked, value |-> value,
     grad_scaler |-> FALSE, scan |-> FALSE]

\* What optimizer.step returns.
OptimizerResult == 7
StepValue(invoked) == IF invoked THEN OptimizerResult ELSE 0
NoScan == [phase |-> "none", param_groups |-> <<>>, scale |-> 1, grads |-> <<>>, found |-> <<>>]

InitWith(g, opts, enabledChoices, iterations) ==
    /\ group = g
    /\ optimizers = opts
    /\ maxIter = iterations
    /\ \E e \in enabledChoices : scaler = [p \in Shards |-> Construct(e)]
    /\ pc = [p \in Shards |-> Idle]
    /\ chan = [p \in Shards |-> <<>>]
    /\ iter = [p \in Shards |-> 0]
    /\ ret = NoCall
    /\ decision = [p \in Shards |-> [o \in Opts |-> "none"]]
    /\ overflow = [p \in Shards |-> "none"]
    /\ cleanRun = [p \in Shards |-> -1]
    /\ runScale = [p \in Shards |-> 0]

\* One process, world size 1, enabled or not.
Init == InitWith({1}, {"opt1", "ampopt"}, BOOLEAN, MaxIter) /\ probe = NoScan

\* The sharded run: every rank holds its shard of the same optimizer.
InitSharded == InitWith(Shards, {"opt1"}, {TRUE}, MaxIterSharded) /\ probe = NoScan

Ready(p) == p \in group /\ pc[p].at = "idle"

TrackerVal(self) == self._growth_tracker.val

\* The tracker count, whatever holds it.
TrackerValOr(self) ==
    IF self._growth_tracker.kind = "None" THEN self._init_growth_tracker ELSE TrackerVal(self)

\* The run of overflow-free iterations starts (again) wherever the tracker is 0.
RunAfter(self, n) ==
    IF self._growth_tracker.kind # "None" /\ TrackerVal(self) = 0 THEN 0 ELSE n

HasNonFinite(grads) ==
    \E i \in DOMAIN grads : \E r \in DOMAIN grads[i].rows : grads[i].rows[r] = NonFinite

\* What a scan met: "flagged" when it set a flag, "missed" when a gradient
\* holds a non-finite element and no flag was set, else "clean".
Met(grads, found) ==
    IF \E i \in DOMAIN found : found[i].val # 0 THEN "flagged"
    ELSE IF HasNonFinite(grads) THEN "missed" ELSE "clean"

Worse(a, b) ==
    IF "flagged" \in {a, b} THEN "flagged"
    ELSE IF "missed" \in {a, b} THEN "missed"
    ELSE IF "clean" \in {a, b} THEN "clean" ELSE "none"

AfterScan(p, o, grads, self) ==
    overflow' = [overflow EXCEPT ![p] =
                    Worse(@, Met(grads, self._per_optimizer_states[o].found_inf_per_device))]

\* The scaled gradients the backward pass left in the optimizer.
ScaledGrads(p, layout) == Backward(layout, get_scale(scaler[p]))

\* scale(outputs) on a tensor of value GradVal that lives on dev.
Scale(p, dev) ==
    /\ Ready(p)
    /\ \E r \in {scale(scaler[p], GradVal, dev)},
          first \in {scaler[p]._enabled /\ scaler[p]._scale.kind = "None"} :
          /\ scaler' = [scaler EXCEPT ![p] = r.self]
          /\ ret' = Ret(p, "scale", dev, "none", FALSE, r.retval)
          /\ cleanRun' = [cleanRun EXCEPT ![p] = IF first THEN RunAfter(r.self, -1) ELSE @]
          /\ runScale' = [runScale EXCEPT ![p] = IF first THEN r.self._scale.val ELSE @]
    /\ UNCHANGED <<group, optimizers, maxIter, pc, chan, iter, probe, decision, overflow>>

\* unscale_(optimizer), up to its wait.
Unscale(p, o, layout) ==
    /\ Ready(p)
    /\ \E r \in {unscale_(scaler[p], o, ScaledGrads(p, layout))} :
          /\ scaler' = [scaler EXCEPT ![p] = r.self]
          /\ chan' = [chan EXCEPT ![p] = r.issued]
          /\ pc' = [pc EXCEPT ![p] = IF r.issued # <<>>
                                     THEN [at |-> "unscale_", optimizer |-> o] ELSE Idle]
          /\ ret' = [Ret(p, "unscale_", o, IF r.issued # <<>> THEN "waiting" ELSE r.err,
                         FALSE, 0) EXCEPT !.scan = (r.err = "none")]
          /\ IF r.err = "none" THEN AfterScan(p, o, r.grads, r.self)
             ELSE UNCHANGED overflow
    /\ UNCHANGED <<group, optimizers, maxIter, iter, probe, decision, cleanRun, runScale>>

Decide(p, o, r) ==
    [decision EXCEPT ![p][o] = IF r.err # "none" THEN @
                               ELSE IF r.invoked THEN "applied" ELSE "skipped"]

\* step(optimizer), up to the wait of the unscale_ it may run.
Step(p, o, layout) ==
    /\ Ready(p)
    /\ \E r \in {step(scaler[p], o, ScaledGrads(p, layout))} :
          /\ scaler' = [scaler EXCEPT ![p] = r.self]
          /\ chan' = [chan EXCEPT ![p] = r.issued]
          /\ pc' = [pc EXCEPT ![p] = IF r.done THEN Idle
                                     ELSE [at |-> "step", optimizer |-> o]]
          /\ ret' = [Ret(p, "step", o, IF r.done THEN r.err ELSE "waiting", r.invoked,
                         StepValue(r.invoked))
                        EXCEPT !.grad_scaler = r.grad_scaler, !.scan = r.scan]
          /\ decision' = IF r.done THEN Decide(p, o, r) ELSE decision
          /\ IF r.scan THEN AfterScan(p, o, r.grads, r.self)
             ELSE UNCHANGED overflow
    /\ UNCHANGED <<group, optimizers, maxIter, iter, probe, cleanRun, runScale>>

RECURSIVE SumHeads(_)
SumHeads(ps) ==
    IF ps = {} THEN 0
    ELSE LET p == CHOOSE x \in ps : TRUE
         IN Head(chan[p]).val + SumHeads(ps \ {p})

\* dist.all_reduce: the oldest incomplete reduction of every rank completes
\* once every rank of the group has issued it; the sum is written to the
\* buffer each rank passed.
AllReduce ==
    /\ \A p \in group : chan[p] # <<>>
    /\ scaler' = [p \in Shards |->
                    IF p \in group /\ Head(chan[p]).inplace
                    THEN [scaler[p] EXCEPT
                            !._per_optimizer_states[pc[p].optimizer].found_inf_per_device =
                                SetFlag(@, Head(chan[p]).device, SumHeads(group))]
                    ELSE scaler[p]]
    /\ chan' = [p \in Shards |-> IF p \in group THEN Tail(chan[p]) ELSE chan[p]]
    /\ UNCHANGED <<group, optimizers, maxIter, pc, iter, ret, probe, decision, overflow,
                   cleanRun, runScale>>

\* last_handle.wait() returns; unscale_ returns, and step() goes on with
\* lines 309-312.
WaitDone(p) ==
    /\ p \in group
    /\ pc[p].at # "idle"
    /\ chan[p] = <<>>
    /\ pc' = [pc EXCEPT ![p] = Idle]
    /\ IF pc[p].at = "unscale_"
       THEN /\ ret' = [Ret(p, "unscale_", pc[p].optimizer, "none", FALSE, 0)
                        EXCEPT !.scan = TRUE]
            /\ UNCHANGED <<scaler, decision>>
       ELSE \E r \in {step_finish(scaler[p], pc[p].optimizer)} :
               /\ scaler' = [scaler EXCEPT ![p] = r.self]
               /\ ret' = [Ret(p, "step", pc[p].optimizer, r.err, r.invoked,
                              StepValue(r.invoked)) EXCEPT !.scan = TRUE]
               /\ decision' = Decide(p, pc[p].optimizer, r)
    /\ UNCHANGED <<group, optimizers, maxIter, chan, iter, probe, overflow, cleanRun,
                   runScale>>

\* update(new_scale).
Update(p, new_scale) ==
    /\ Ready(p)
    /\ iter[p] < maxIter
    /\ \E r \in {update(scaler[p], new_scale)} :
       \E ended \in {r.err = "none" /\ scaler[p]._enabled} :
          /\ scaler' = [scaler EXCEPT ![p] = r.self]
          /\ ret' = Ret(p, "update", IF new_scale = <<>> THEN "None" ELSE "new_scale",
                        r.err, FALSE, 0)
          /\ iter' = [iter EXCEPT ![p] = IF ended THEN @ + 1 ELSE @]
          /\ decision' = IF ended THEN [decision EXCEPT ![p] = [o \in Opts |-> "none"]]
                         ELSE decision
          /\ overflow' = IF ended THEN [overflow EXCEPT ![p] = "none"] ELSE overflow
          /\ cleanRun' = [cleanRun EXCEPT ![p] =
                            IF ~ended THEN @
                            ELSE IF new_scale = <<>> /\ overflow[p] = "clean" /\ @ >= 0
                                 THEN RunAfter(r.self, @ + 1)
                                 ELSE RunAfter(r.self, -1)]
          /\ runScale' = [runScale EXCEPT ![p] =
                            IF ended /\ cleanRun'[p] <= 0 THEN r.self._scale.val ELSE @]
    /\ UNCHANGED <<group, optimizers, maxIter, pc, chan, probe>>

\* state_dict().
StateDict(p) ==
    /\ Ready(p)
    /\ \E r \in {state_dict(scaler[p])} :
          ret' = Ret(p, "state_dict", "none", r.err, FALSE, Cardinality(DOMAIN r.retval))
    /\ UNCHANGED <<group, optimizers, maxIter, scaler, pc, chan, iter, probe, decision,
                   overflow, cleanRun, runScale>>

\* load_state_dict(sd).
LoadStateDict(p, sd) ==
    /\ Ready(p)
    /\ \E r \in {load_state_dict(scaler[p], sd)} :
          /\ scaler' = [scaler EXCEPT ![p] = r.self]
          /\ ret' = Ret(p, "load_state_dict",
                        IF DOMAIN sd = {} THEN "empty" ELSE "blob", r.err, FALSE, 0)
          /\ cleanRun' = [cleanRun EXCEPT ![p] =
                            IF r.self = scaler[p] THEN @ ELSE RunAfter(r.self, -1)]
          /\ runScale' = [runScale EXCEPT ![p] =
                            IF r.self = scaler[p] THEN @ ELSE r.self._scale.val]
    /\ UNCHANGED <<group, optimizers, maxIter, pc, chan, iter, probe, decision, overflow>>

\* pickle.dumps(scaler): __getstate__().
GetState(p) ==
    /\ Ready(p)
    /\ \E r \in {__getstate__(scaler[p])} :
          ret' = Ret(p, "__getstate__", "none", r.err, FALSE, 0)
    /\ UNCHANGED <<group, optimizers, maxIter, scaler, pc, chan, iter, probe, decision,
                   overflow, cleanRun, runScale>>

\* get_scale().
GetScale(p) ==
    /\ Ready(p)
    /\ ret' = Ret(p, "get_scale", "none", "none", FALSE, get_scale(scaler[p]))
    /\ UNCHANGED <<group, optimizers, maxIter, scaler, pc, chan, iter, probe, decision,
                   overflow, cleanRun, runScale>>

\* The gradients matter to a call that scans them only: unscale_ of a READY
\* optimizer, and step() of a READY optimizer that is not scale-aware.
UnscaleScans(p, o) ==
    /\ scaler[p]._enabled
    /\ _check_scale_growth_tracker(scaler[p])
    /\ Touch(scaler[p]._per_optimizer_states, o)[o].stage = "READY"

Scans(p, o) == UnscaleScans(p, o) /\ ~step_supports_amp_scaling(o)

LayoutsFor(p, o) == IF Scans(p, o) THEN GradLayouts ELSE {NoGradLayout}

\* The gradients a scale-aware optimizer is unscaled with: one device, with
\* and without a non-finite element.
AmpGradLayouts ==
    { << <<Grad("cuda", "float32", <<GradVal, GradVal>>)>> >>,
      << <<Grad("cuda", "float32", <<GradVal>>), Grad("cuda", "float32", <<NonFinite>>)>> >> }

UnscaleLayoutsFor(p, o) ==
    IF ~UnscaleScans(p, o) THEN {NoGradLayout}
    ELSE IF step_supports_amp_scaling(o) THEN AmpGradLayouts ELSE GradLayouts

Next ==
    \/ \E p \in Shards, dev \in Devices : Scale(p, dev)
    \/ \E p \in Shards, o \in optimizers : \E layout \in UnscaleLayoutsFor(p, o) : Unscale(p, o, layout)
    \/ \E p \in Shards, o \in optimizers : \E layout \in LayoutsFor(p, o) : Step(p, o, layout)
    \/ AllReduce
    \/ \E p \in Shards : WaitDone(p)
    \/ \E p \in Shards, new_scale \in {<<>>, <<NewScale>>} : Update(p, new_scale)
    \/ \E p \in Shards : StateDict(p)
    \/ \E p \in Shards : LoadStateDict(p, SampleBlob)
    \/ \E p \in Shards : LoadStateDict(p, EmptyDict)
    \/ \E p \in Shards : GetState(p)
    \/ \E p \in Shards : GetScale(p)

Spec == Init /\ [][Next]_vars

\* The training loop of every rank of the sharded run.
NextSharded ==
    \/ \E p \in Shards, dev \in Devices : Scale(p, dev)
    \/ \E p \in Shards, o \in optimizers : \E layout \in UnscaleLayoutsFor(p, o) : Unscale(p, o, layout)
    \/ \E p \in Shards, o \in optimizers : \E layout \in LayoutsFor(p, o) : Step(p, o, layout)
    \/ AllReduce
    \/ \E p \in Shards : WaitDone(p)
    \/ \E p \in Shards : Update(p, <<>>)

SpecSharded == InitSharded /\ [][NextSharded]_vars

\* One iteration of the sharded run up to step(): the collective layer
\* completes a reduction every rank has issued, and a rank whose reductions
\* are complete goes on.
NextStep ==
    \/ \E p \in Shards, dev \in Devices : Scale(p, dev)
    \/ \E p \in Shards, o \in optimizers : \E layout \in LayoutsFor(p, o) : Step(p, o, layout)
    \/ AllReduce
    \/ \E p \in Shards : WaitDone(p)

SpecStepFair ==
    /\ InitSharded /\ [][NextStep]_vars
    /\ WF_vars(AllReduce)
    /\ \A p \in Shards : WF_vars(WaitDone(p))

\* One process that trains with two scale-agnostic optimizers under one scaler.
InitOpts == InitWith({1}, {"opt1", "opt2"}, {TRUE}, MaxIterOpts) /\ probe = NoScan

NextOpts ==
    \/ \E p \in Shards, dev \in Devices : Scale(p, dev)
    \/ \E p \in Shards, o \in optimizers : \E layout \in UnscaleLayoutsFor(p, o) : Unscale(p, o, layout)
    \/ \E p \in Shards, o \in optimizers : \E layout \in LayoutsFor(p, o) : Step(p, o, layout)
    \/ AllReduce
    \/ \E p \in Shards : WaitDone(p)
    \/ \E p \in Shards : Update(p, <<>>)

SpecOpts == InitOpts /\ [][NextOpts]_vars

\* The overflow scan alone, on every optimizer of up to three parameters in
\* two parameter groups.
DTypes == {"float32", "float64"}
ScanRows == {<<GradVal>>, <<NonFinite>>, <<GradVal, NonFinite, GradVal>>, <<GradVal, GradVal>>}
ScanParams == {NoGrad} \cup {Grad(d, t, r) : d \in Devices, t \in DTypes, r \in ScanRows}
ScanLayouts == {<< <<a, b>>, <<c>> >> : a \in ScanParams, b \in ScanParams, c \in ScanParams}
ScanScales == {1, InitScale}

InitScan ==
    /\ InitWith({}, {}, {TRUE}, 0)
    /\ \E l \in ScanLayouts, sc \in ScanScales :
          probe = [NoScan EXCEPT !.phase = "input", !.param_groups = Backward(l, sc),
                                 !.scale = sc]

\* _unscale_grads_(optimizer, inv_scale, found_inf) with a zero flag.
RunScan ==
    /\ probe.phase = "input"
    /\ \E r \in {_unscale_grads_(probe.param_groups, <<1, probe.scale>>)} :
          probe' = [probe EXCEPT !.phase = "done", !.grads = r.grads, !.found = r.found]
    /\ UNCHANGED <<group, optimizers, maxIter, scaler, pc, chan, iter, ret, decision,
                   overflow, cleanRun, runScale>>

NextScan == RunScan

SpecScan == InitScan /\ [][NextScan]_vars

\* =================================================================
\* Properties.

\* A call of p returned or raised in this step.
Returned(p, op) ==
    ret'.proc = p /\ ret'.op = op /\ ret'.err # "waiting" /\ chan' = chan

\* update() without a new scale returned without an error in this step.
AutoUpdated(p) ==
    Returned(p, "update") /\ ret'.arg = "None" /\ ret'.err = "none" /\ scaler[p]._enabled

Flags(self, o) == self._per_optimizer_states[o].found_inf_per_device

Combined(self) ==
    SumVals(found_infs(self._per_optimizer_states, DOMAIN self._per_optimizer_states))

NoFlags(self) ==
    \A o \in DOMAIN self._per_optimizer_states : Flags(self, o) = <<>>

ErrStepped == "RuntimeError: step() has already been called"
ErrNoChecks == "AssertionError: No inf checks were recorded prior to update"

\* C1 (SpecSharded): when a rank's scan recorded an overflow in an iteration,
\* the update() of every rank that began the iteration with the same scale
\* and stepped its optimizers multiplies its scale by backoff_factor.
C1_AgreementOnBackoff ==
    [][\A p \in group :
         (/\ AutoUpdated(p)
          /\ \A o \in optimizers : decision[p][o] # "none"
          /\ \E q \in group : /\ iter[q] = iter[p]
                              /\ overflow[q] = "flagged"
                              /\ scaler[q]._scale.val = scaler[p]._scale.val)
         => scaler'[p]._scale.val = MulFrac(scaler[p]._scale.val, scaler[p]._backoff_factor)
      ]_vars

\* C2 (SpecSharded): two ranks in the same iteration whose step() returned
\* for an optimizer either both called optimizer.step or both skipped it.
C2_SameDecision ==
    \A p \in group, q \in group, o \in optimizers :
        (iter[p] = iter[q] /\ decision[p][o] # "none" /\ decision[q][o] # "none")
        => decision[p][o] = decision[q][o]

\* C3: on an enabled instance, a step(optimizer) after a step(optimizer) that
\* returned in the same iteration raises the sequencing error and does not
\* call optimizer.step.
C3_SecondStepFails ==
    [][\A p \in group, o \in optimizers :
         (scaler[p]._enabled /\ decision[p][o] # "none"
          /\ Returned(p, "step") /\ ret'.arg = o)
         => /\ ret'.err = ErrStepped
            /\ ~ret'.invoked
            /\ decision' = decision
            /\ scaler' = scaler
      ]_vars

C3_Witness ==
    /\ ret.op = "step" /\ ret.err = ErrStepped
    /\ scaler[ret.proc]._enabled
    /\ decision[ret.proc][ret.arg] = "applied"

\* C4: on an enabled instance with a materialized scale, update() without a
\* new scale raises when no flag is recorded for any optimizer, and leaves
\* the scale and the growth tracker as they were.
C4_UpdateWithoutChecks ==
    [][\A p \in group :
         (/\ scaler[p]._enabled /\ _check_scale_growth_tracker(scaler[p])
          /\ NoFlags(scaler[p])
          /\ Returned(p, "update") /\ ret'.arg = "None")
         => /\ ret'.err = ErrNoChecks
            /\ scaler'[p]._scale = scaler[p]._scale
            /\ scaler'[p]._growth_tracker = scaler[p]._growth_tracker
            /\ iter' = iter
      ]_vars

C4_Witness ==
    /\ ret.op = "update" /\ ret.arg = "None" /\ ret.err = ErrNoChecks
    /\ iter[ret.proc] >= 1
    /\ scaler[ret.proc]._per_optimizer_states = EmptyStates

\* C5: the update() that ends the N-th overflow-free iteration in a row since
\* the tracker was 0 leaves the scale unchanged and the tracker at N when
\* N < growth_interval, and multiplies the scale by growth_factor and resets
\* the tracker to 0 when N = growth_interval.
C5_GrowthLaw ==
    [][\A p \in group :
         (AutoUpdated(p) /\ overflow[p] = "clean" /\ cleanRun[p] >= 0)
         => /\ cleanRun[p] + 1 <= scaler[p]._growth_interval
            /\ cleanRun[p] + 1 < scaler[p]._growth_interval
               => /\ scaler'[p]._scale.val = runScale[p]
                  /\ TrackerVal(scaler'[p]) = cleanRun[p] + 1
            /\ cleanRun[p] + 1 = scaler[p]._growth_interval
               => /\ scaler'[p]._scale.val = MulFrac(runScale[p], scaler[p]._growth_factor)
                  /\ TrackerVal(scaler'[p]) = 0
      ]_vars

C5_Witness ==
    \E p \in group :
        /\ ret.proc = p /\ ret.op = "update" /\ ret.arg = "None" /\ ret.err = "none"
        /\ iter[p] = GrowthInterval
        /\ scaler[p]._scale.val = MulFrac(InitScale, GrowthFactor)
        /\ TrackerVal(scaler[p]) = 0

\* C6: update() without a new scale multiplies the scale by backoff_factor
\* and resets the tracker to 0 whenever the sum of the recorded flags is not
\* zero, on whichever device the scale lives.
C6_BackoffLaw ==
    [][\A p \in group :
         (AutoUpdated(p) /\ Combined(scaler[p]) # 0)
         => /\ scaler'[p]._scale.val
                 = MulFrac(scaler[p]._scale.val, scaler[p]._backoff_factor)
            /\ TrackerVal(scaler'[p]) = 0
      ]_vars

\* C7: on an enabled instance, a step() of a scale-agnostic optimizer that
\* returns has called optimizer.step (and returns its result) exactly when
\* the optimizer's flags sum to zero, and has left the stage STEPPED.
C7_StepOrSkip ==
    \A p \in group, o \in optimizers :
        (/\ scaler[p]._enabled /\ ~step_supports_amp_scaling(o)
         /\ ret.proc = p /\ ret.op = "step" /\ ret.arg = o /\ ret.err = "none")
        => /\ scaler[p]._per_optimizer_states[o].stage = "STEPPED"
           /\ ret.invoked <=> (SumVals(Flags(scaler[p], o)) = 0)
           /\ ret.value = (IF SumVals(Flags(scaler[p], o)) = 0 THEN OptimizerResult ELSE 0)
           /\ decision[p][o] = (IF SumVals(Flags(scaler[p], o)) = 0 THEN "applied"
                                ELSE "skipped")

C7_Witness ==
    /\ ret.op = "step" /\ ret.arg = "opt1" /\ ret.err = "none" /\ ~ret.invoked
    /\ scaler[ret.proc]._enabled
    /\ Len(Flags(scaler[ret.proc], "opt1")) = 2

\* C8 (SpecScan): after the scan, the flag of a device is non-zero exactly
\* when a gradient on that device holds a non-finite element.
C8_ScanComplete ==
    probe.phase = "done" =>
        \A d \in Devices :
            (\E i \in DOMAIN probe.found : probe.found[i].device = d /\ probe.found[i].val # 0)
            <=> (\E g \in DOMAIN probe.grads :
                    /\ probe.grads[g].device = d
                    /\ \E r \in DOMAIN probe.grads[g].rows :
                          probe.grads[g].rows[r] = NonFinite)

\* A fresh instance loaded with the blob agrees with the instance on the five values.
RoundTrip(self) ==
    \A sd \in {state_dict(self).retval} :
        \A fresh \in {load_state_dict(Construct(TRUE), sd).self} :
            /\ get_scale(fresh) = get_scale(self)
            /\ fresh._growth_factor = self._growth_factor
            /\ fresh._backoff_factor = self._backoff_factor
            /\ fresh._growth_interval = self._growth_interval
            /\ _get_growth_tracker(fresh) = _get_growth_tracker(self)

\* C9: state_dict() of an enabled instance succeeds, returns five entries,
\* and a fresh instance loaded with them has the same scale, factors,
\* interval and tracker count.
C9_StateDictRoundTrip ==
    \A p \in group :
        (scaler[p]._enabled /\ ret.proc = p /\ ret.op = "state_dict")
        => /\ ret.err = "none"
           /\ ret.value = 5
           /\ RoundTrip(scaler[p])

\* C10: on a disabled instance scale() returns its input, get_scale() is 1.0,
\* step() calls optimizer.step and never raises, update() and
\* load_state_dict() change nothing and state_dict() is empty.
C10_Disabled ==
    \A p \in group :
        ~scaler[p]._enabled
        => /\ scaler[p] = Construct(FALSE)
           /\ get_scale(scaler[p]) = 1
           /\ iter[p] = 0
           /\ ret.proc = p
              => /\ ret.op = "scale" => ret.value = GradVal
                 /\ ret.op = "step" => (ret.invoked /\ ret.err = "none"
                                        /\ ret.value = OptimizerResult)
                 /\ ret.op = "update" => ret.err = "none"
                 /\ ret.op = "state_dict" => (ret.err = "none" /\ ret.value = 0)
                 /\ ret.op = "load_state_dict" => ret.err = "none"

C10_Witness ==
    /\ ret.op = "step" /\ ret.invoked
    /\ ~scaler[ret.proc]._enabled
    /\ decision[ret.proc][ret.arg] = "applied"

\* C11: pickling an enabled instance fails while the per-optimizer state map
\* is non-empty, and succeeds whenever it is empty (after construction, after
\* an update()) with a snapshot that holds the current scale and tracker
\* count and no buffers.
C11_PickleAtBoundary ==
    \A p \in group :
        (scaler[p]._enabled /\ ret.proc = p /\ ret.op = "__getstate__")
        => \A r \in {__getstate__(scaler[p])} :
              IF DOMAIN scaler[p]._per_optimizer_states # {}
              THEN ret.err # "none"
              ELSE /\ ret.err = "none"
                   /\ r.state._init_scale = get_scale(scaler[p])
                   /\ r.state._init_growth_tracker = TrackerValOr(scaler[p])
                   /\ r.state._scale = None
                   /\ r.state._growth_tracker = None

\* C12: on an enabled instance with a materialized scale, update(new_scale)
\* with a float succeeds whatever flags are recorded (none included), sets
\* the scale to new_scale, leaves the growth tracker and the device of the
\* scale as they were, and empties the per-optimizer state map.
C12_ExplicitNewScale ==
    [][\A p \in group :
         (/\ scaler[p]._enabled /\ _check_scale_growth_tracker(scaler[p])
          /\ Returned(p, "update") /\ ret'.arg = "new_scale")
         => /\ ret'.err = "none"
            /\ scaler'[p]._scale = [scaler[p]._scale EXCEPT !.val = NewScale]
            /\ scaler'[p]._growth_tracker = scaler[p]._growth_tracker
            /\ scaler'[p]._per_optimizer_states = EmptyStates
            /\ iter'[p] = iter[p] + 1
      ]_vars

C12_Witness ==
    \E p \in group :
        /\ ret.proc = p /\ ret.op = "update" /\ ret.arg = "new_scale" /\ ret.err = "none"
        /\ scaler[p]._enabled
        /\ scaler[p]._scale.val = NewScale
        /\ TrackerVal(scaler[p]) = 1
        /\ runScale[p] = NewScale /\ cleanRun[p] = -1

\* C13: on an enabled instance, step() of an optimizer that declares
\* _step_supports_amp_scaling and is not STEPPED calls optimizer.step with
\* grad_scaler=self whatever flags are recorded, returns its result, marks
\* the optimizer STEPPED, and neither scans nor issues a reduction.
C13_ScaleAwareDelegation ==
    [][\A p \in group, o \in optimizers \cap ScaleAware :
         (/\ scaler[p]._enabled /\ _check_scale_growth_tracker(scaler[p])
          /\ Touch(scaler[p]._per_optimizer_states, o)[o].stage # "STEPPED"
          /\ pc[p].at = "idle"
          /\ ret'.proc = p /\ ret'.op = "step" /\ ret'.arg = o)
         => /\ ret'.err = "none"
            /\ ret'.invoked /\ ret'.grad_scaler
            /\ ret'.value = OptimizerResult
            /\ scaler'[p] = [scaler[p] EXCEPT !._per_optimizer_states =
                                [Touch(@, o) EXCEPT ![o].stage = "STEPPED"]]
            /\ chan' = chan /\ pc' = pc
            /\ overflow' = overflow
      ]_vars

C13_Witness ==
    \E p \in group :
        /\ ret.proc = p /\ ret.op = "step" /\ ret.arg = "ampopt" /\ ret.err = "none"
        /\ ret.invoked /\ ret.grad_scaler
        /\ scaler[p]._per_optimizer_states["ampopt"].stage = "STEPPED"
        /\ SumVals(Flags(scaler[p], "ampopt")) # 0

\* C14 (SpecScan): when no gradient of the optimizer holds a non-finite
\* element, after the scan with the reciprocal of the scale every element of
\* every gradient has the value it had before scale() multiplied it.
C14_UnscaleRoundTrip ==
    (probe.phase = "done" /\ ~HasNonFinite(Flatten(probe.param_groups)))
    => /\ Len(probe.grads) = Len(Flatten(probe.param_groups))
       /\ \A i \in DOMAIN probe.grads :
             \A r \in DOMAIN probe.grads[i].rows : probe.grads[i].rows[r] = GradVal

\* C15 (SpecSharded): when unscale_ (called directly or by step()) has
\* returned on a rank, every rank of the group has scanned one device in the
\* same iteration and no reduction is outstanding, the flag stored for the
\* optimizer on that rank is non-zero exactly when the local flag of some
\* rank was non-zero.
C15_ReducedFlagStored ==
    \A p \in group, o \in optimizers :
        (/\ ret.proc = p /\ ret.op \in {"unscale_", "step"} /\ ret.arg = o
         /\ ret.err = "none"
         /\ \A q \in group : /\ iter[q] = iter[p]
                             /\ overflow[q] # "none"
                             /\ chan[q] = <<>>
                             /\ o \in DOMAIN scaler[q]._per_optimizer_states
                             /\ Len(Flags(scaler[q], o)) = 1)
        => (Flags(scaler[p], o)[1].val # 0 <=> \E q \in group : overflow[q] = "flagged")

\* The rank has called step() for the optimizer in this iteration.
CalledStep(q, o) ==
    \/ pc[q] = [at |-> "step", optimizer |-> o]
    \/ /\ o \in DOMAIN scaler[q]._per_optimizer_states
       /\ scaler[q]._per_optimizer_states[o].stage # "READY"

\* C16 (SpecStepFair): once every rank of the group has called step() for
\* its optimizer, a rank that waits inside step() eventually returns.
C16_StepReturns ==
    \A p \in Shards :
        (pc[p].at = "step" /\ \A q \in group : CalledStep(q, pc[p].optimizer))
        ~> (pc[p].at = "idle")

\* C17: every update() of an enabled instance that returns without an error,
\* with or without a new scale, leaves an empty per-optimizer state map, so
\* that every optimizer is READY with no flags; a step() called on that map
\* is not refused as a second step.
C17_IterationReset ==
    [][\A p \in group :
         /\ (scaler[p]._enabled /\ Returned(p, "update") /\ ret'.err = "none")
            => /\ scaler'[p]._per_optimizer_states = EmptyStates
               /\ \A o \in optimizers :
                     Touch(scaler'[p]._per_optimizer_states, o)[o]
                         = [stage |-> "READY", found_inf_per_device |-> <<>>]
         /\ (/\ scaler[p]._enabled /\ scaler[p]._per_optimizer_states = EmptyStates
             /\ pc[p].at = "idle" /\ ret'.proc = p /\ ret'.op = "step")
            => ret'.err # ErrStepped
      ]_vars

C17_Witness ==
    \E p \in group :
        /\ scaler[p]._enabled /\ iter[p] >= 1
        /\ ret.proc = p /\ ret.op = "step" /\ ret.arg = "opt1" /\ ret.err = "none"
        /\ ret.invoked
        /\ scaler[p]._per_optimizer_states["opt1"].stage = "STEPPED"

\* C18: on an enabled instance a call of step() for an optimizer whose stage
\* is not READY runs no scan, issues no reduction and leaves the recorded
\* flags as they are; step() of an UNSCALED scale-agnostic optimizer decides
\* on the recorded flags.
C18_NoDoubleScan ==
    [][\A p \in group, o \in optimizers :
         (/\ scaler[p]._enabled /\ _check_scale_growth_tracker(scaler[p])
          /\ pc[p].at = "idle"
          /\ ret'.proc = p /\ ret'.op = "step" /\ ret'.arg = o
          /\ Touch(scaler[p]._per_optimizer_states, o)[o].stage # "READY")
         => /\ ~ret'.scan
            /\ ret'.err # "waiting"
            /\ chan' = chan /\ pc' = pc
            /\ overflow' = overflow
            /\ Flags(scaler'[p], o) = Flags(scaler[p], o)
            /\ (/\ o \notin ScaleAware
                /\ scaler[p]._per_optimizer_states[o].stage = "UNSCALED"
                /\ Flags(scaler[p], o) # <<>>)
               => /\ ret'.err = "none"
                  /\ ret'.invoked <=> (SumVals(Flags(scaler[p], o)) = 0)
                  /\ scaler'[p]._per_optimizer_states[o].stage = "STEPPED"
      ]_vars

C18_Witness ==
    \E p \in group :
        /\ scaler[p]._enabled
        /\ ret.proc = p /\ ret.op = "step" /\ ret.arg = "opt1" /\ ret.err = "none"
        /\ ~ret.scan /\ ~ret.invoked
        /\ SumVals(Flags(scaler[p], "opt1")) # 0

\* The stage of an optimizer; one the map does not hold yet is READY.
StageOf(self, o) ==
    IF o \in DOMAIN self._per_optimizer_states
    THEN self._per_optimizer_states[o].stage ELSE "READY"

StageRank(stage) == IF stage = "READY" THEN 0 ELSE IF stage = "UNSCALED" THEN 1 ELSE 2

\* C19: in every step that is not an update() returning without an error,
\* the stage of every optimizer stays or moves forward in the order READY,
\* UNSCALED, STEPPED; a step() refused because the stage is STEPPED leaves
\* the stage and the flags as they are.
C19_StageMonotonic ==
    [][\A p \in group, o \in optimizers :
         /\ ~(ret'.op = "update" /\ ret'.proc = p /\ ret'.err = "none")
            => StageRank(StageOf(scaler'[p], o)) >= StageRank(StageOf(scaler[p], o))
         /\ (pc[p].at = "idle" /\ ret'.proc = p /\ ret'.op = "step" /\ ret'.arg = o
             /\ ret'.err = ErrStepped)
            => /\ StageOf(scaler[p], o) = "STEPPED"
               /\ scaler'[p]._per_optimizer_states[o] = scaler[p]._per_optimizer_states[o]
      ]_vars

C19_Witness ==
    \E p \in group :
        /\ scaler[p]._enabled
        /\ ret.proc = p /\ ret.op = "step" /\ ret.arg = "opt1" /\ ret.err = ErrStepped
        /\ StageOf(scaler[p], "opt1") = "STEPPED"
        /\ StageOf(scaler[p], "ampopt") = "UNSCALED"

\* C20: once scale() has materialized them, the scale and the growth tracker
\* of an enabled instance are one-element buffers on the same device in
\* every reachable state.
C20_BuffersInPlace ==
    \A p \in group :
        (scaler[p]._enabled /\ scaler[p]._scale.kind # "None")
        => /\ scaler[p]._scale.kind = "Tensor"
           /\ scaler[p]._growth_tracker.kind = "Tensor"
           /\ scaler[p]._growth_tracker.device = scaler[p]._scale.device

ErrNoScale == "AssertionError: _scale is None"

\* C21: on an enabled instance, step() and update() called before the first
\* scale() raise and leave the instance as it was; get_scale() then returns
\* the initial scale; the first scale() creates the scale and the growth
\* tracker on the tensor's device with the initial scale and the initial
\* tracker count, and a later scale() leaves both buffers as they are.
C21_TwoPhase ==
    [][\A p \in group :
          scaler[p]._enabled =>
             /\ ((Returned(p, "step") \/ Returned(p, "update"))
                   /\ ~_check_scale_growth_tracker(scaler[p]))
                => (ret'.err = ErrNoScale /\ scaler'[p] = scaler[p])
             /\ (Returned(p, "get_scale") /\ scaler[p]._scale.kind = "None")
                => ret'.value = scaler[p]._init_scale
             /\ Returned(p, "scale")
                => IF scaler[p]._scale.kind = "None"
                   THEN /\ scaler'[p]._scale = Tensor(ret'.arg, scaler[p]._init_scale)
                        /\ scaler'[p]._growth_tracker =
                              Tensor(ret'.arg, scaler[p]._init_growth_tracker)
                   ELSE /\ scaler'[p]._scale = scaler[p]._scale
                        /\ scaler'[p]._growth_tracker = scaler[p]._growth_tracker
      ]_vars

\* step() has raised on an instance that holds a state loaded before its
\* first scale().
C21_Witness ==
    \E p \in group :
        /\ scaler[p]._enabled
        /\ scaler[p]._scale.kind = "None"
        /\ scaler[p]._init_growth_tracker = SampleBlob._growth_tracker
        /\ ret.proc = p /\ ret.op = "step" /\ ret.err = ErrNoScale

\* C22: the growth-tracker count of an enabled instance is at least 0 and
\* less than growth_interval in every reachable state, whatever holds the
\* count (the buffer, a plain number, or the initial count before the first
\* scale()).
C22_TrackerBound ==
    \A p \in group :
        scaler[p]._enabled
        => /\ 0 <= TrackerValOr(scaler[p])
           /\ TrackerValOr(scaler[p]) < scaler[p]._growth_interval

\* update() has returned after growth_interval overflow-free iterations in a
\* row: the scale has grown and the count is back at 0.
C22_Witness ==
    \E p \in group :
        /\ scaler[p]._enabled
        /\ ret.proc = p /\ ret.op = "update" /\ ret.arg = "None" /\ ret.err = "none"
        /\ cleanRun[p] = 0 /\ iter[p] >= scaler[p]._growth_interval
        /\ scaler[p]._scale.val = MulFrac(InitScale, scaler[p]._growth_factor)
        /\ TrackerValOr(scaler[p]) = 0

\* The step of the model is part of a step(o) call of p: the call itself, or
\* a step taken while p is inside it.
InStep(p, o) ==
    \/ pc[p] = [at |-> "step", optimizer |-> o]
    \/ pc[p].at = "idle" /\ ret'.proc = p /\ ret'.op = "step" /\ ret'.arg = o /\ ret' # ret

\* The record of optimizer o is left as it is: absent, or present and equal.
SameRecord(p, o) ==
    IF o \in DOMAIN scaler[p]._per_optimizer_states
    THEN /\ o \in DOMAIN scaler'[p]._per_optimizer_states
         /\ scaler'[p]._per_optimizer_states[o] = scaler[p]._per_optimizer_states[o]
    ELSE o \notin DOMAIN scaler'[p]._per_optimizer_states

\* C23 (SpecOpts): with several optimizers under one scaler, every step of a
\* step(o) call leaves the record of every other optimizer, the scale and
\* the growth tracker as they are; step(o) raises the already-stepped error
\* only when o itself is STEPPED; and a step(o) that returns calls
\* optimizer.step exactly when the flags recorded for o sum to zero.  The
\* optimizers are scale-agnostic.
C23_Independence ==
    [][\A p \in group, o \in optimizers :
          InStep(p, o) =>
             /\ \A other \in Opts \ {o} : SameRecord(p, other)
             /\ scaler'[p]._scale = scaler[p]._scale
             /\ scaler'[p]._growth_tracker = scaler[p]._growth_tracker
             /\ (Returned(p, "step") /\ ret'.err = ErrStepped)
                => (o \in DOMAIN scaler[p]._per_optimizer_states
                    /\ StageOf(scaler[p], o) = "STEPPED")
             /\ (Returned(p, "step") /\ ret'.err = "none")
                => (ret'.invoked <=> SumVals(Flags(scaler'[p], o)) = 0)
      ]_vars

\* step(opt2) has called optimizer.step in an iteration where step(opt1)
\* skipped on an overflow and opt1 is STEPPED.
C23_Witness ==
    \E p \in group :
        /\ ret.proc = p /\ ret.op = "step" /\ ret.arg = "opt2"
        /\ ret.err = "none" /\ ret.invoked
        /\ decision[p]["opt1"] = "skipped"
        /\ "opt1" \in DOMAIN scaler[p]._per_optimizer_states
        /\ StageOf(scaler[p], "opt1") = "STEPPED"
        /\ SumVals(Flags(scaler[p], "opt1")) > 0
        /\ SumVals(Flags(scaler[p], "opt2")) = 0

====
